---- MODULE Spec2Model ----
(***************************************************************************)
(* Model of server/ws/src/client.ts: ClientSession, the session layer      *)
(* between a client connection and the shared pipeline.                    *)
(*                                                                         *)
(* An async method is a sequence of atomic steps, cut at its awaits: the   *)
(* synchronous prefix up to and including the invocation of the awaited    *)
(* call is one step, and the completion of the awaited call (success or    *)
(* failure) together with the code up to the next await is the next step.  *)
(* Several calls, of one session or of several, interleave at these cuts.  *)
(***************************************************************************)
EXTENDS Integers, Sequences, FiniteSets, TLC

\* ------------------------------------------------------------------ bounds
MaxCalls == 2       \* requests issued in one behaviour
MaxClock == 1       \* largest value of the clock
MaxLen == 2         \* longest small batch handed to broadcast
MaxBroadcasts == 1  \* broadcasts observed in one behaviour

\* --------------------------------------------------------------- universe
Sessions == {"s1", "s2"}
Calls == 1..MaxCalls

\* An email is a sequence of string parts, so that the template
\* `system:${email}` is a real prefixing and "a" differs from "system:a".
EmailA == <<"a">>
EmailB == <<"b">>
Emails == {EmailA, EmailB}

\* token.extra?.admin: the string 'true', another string, or absent.
AdminValues == {"true", "false", "absent"}

Undefined == [kind |-> "undefined"]
Pong == [kind |-> "string", value |-> "pong!"]

VARIABLES
  now,            \* Date.now()
  token,          \* session -> [email, admin]
  requests,       \* session -> ids of the live requests (the requests map)
  lastRequest,    \* session -> Timestamp
  total,          \* session -> StatisticsElement
  current,        \* session -> StatisticsElement
  mins5,          \* session -> StatisticsElement
  binaryMode,     \* session -> boolean
  useCompression, \* session -> boolean
  modelDb,        \* _pipeline.context.modelDb: the set of documents
  pc,             \* call -> position of the call
  op,             \* call -> the method called ("none" until dispatched)
  sess,           \* call -> the session the call runs on
  ctxData,        \* call -> ctx.ctx.contextData (Undefined until installed)
  nextCtx,        \* identity of the next SessionDataImpl constructed
  submitted,      \* call -> batches handed to _pipeline.tx, in order
  txDone,         \* call -> number of _pipeline.tx calls that resolved
  piped,          \* call -> number of pipeline calls of any kind invoked
  responses,      \* call -> values handed to ctx.sendResponse, in order
  delivered,      \* call -> number of sendResponse calls that resolved
  flushed,        \* call -> number of _pipeline.handleBroadcast invocations
  socket          \* the last broadcast: its batch and what the transport got

vars == <<now, token, requests, lastRequest, total, current, mins5,
          binaryMode, useCompression, modelDb, pc, op, sess, ctxData, nextCtx,
          submitted, txDone, piped, responses, delivered, flushed, socket>>

sessionVars == <<token, requests, lastRequest, total, current, mins5,
                 binaryMode, useCompression>>
callVars == <<pc, op, sess, ctxData, nextCtx, submitted, txDone, piped,
              responses, delivered, flushed>>

\* ------------------------------------------------- collaborators (core)
StatisticsElement == [find |-> 0, tx |-> 0]

\* `system:${this.token.email}`
SystemEmail(email) == <<"system:">> \o email

\* Mutant: the document is keyed by the derived identifier.
CreateAccountTx_DerivedKey(email) ==
  [_class |-> "TxCreateDoc", objectClass |-> "Account",
   objectSpace |-> "Model", objectId |-> SystemEmail(email),
   modifiedBy |-> "System",
   attributes |-> [role |-> "OWNER", email |-> SystemEmail(email)]]

\* Mutant: the email is stored without its prefix.
CreateAccountTx_RawEmail(email) ==
  [_class |-> "TxCreateDoc", objectClass |-> "Account",
   objectSpace |-> "Model", objectId |-> email, modifiedBy |-> "System",
   attributes |-> [role |-> "OWNER", email |-> email]]

\* factory.createTxCreateDoc(core.class.Account, core.space.Model,
\*   { role: AccountRole.Owner, email }, this.token.email as Ref<Account>)
CreateAccountTx(email) ==
  [_class |-> "TxCreateDoc", objectClass |-> "Account",
   objectSpace |-> "Model", objectId |-> email, modifiedBy |-> "System",
   attributes |-> [role |-> "OWNER", email |-> SystemEmail(email)]]

\* TxProcessor.createDoc2Doc: the document a creation transaction yields.
createDoc2Doc(tx) ==
  [kind |-> "doc", _id |-> tx.objectId, _class |-> tx.objectClass,
   space |-> tx.objectSpace, email |-> tx.attributes.email,
   role |-> tx.attributes.role]

\* An account a user registered with: its reference is not the raw email.
UserAccount(email) ==
  [kind |-> "doc", _id |-> <<"account:">> \o email, _class |-> "Account",
   space |-> "Model", email |-> email, role |-> "USER"]

\* modelDb.getAccountByEmail: the account whose email field is `email`.
getAccountByEmail(db, email) ==
  LET found == {d \in db : d._class = "Account" /\ d.email = email}
  IN IF found = {} THEN Undefined ELSE CHOOSE d \in found : TRUE

\* modelDb.findObject: the document whose reference is `ref`.
findObject(db, ref) ==
  LET found == {d \in db : d._id = ref}
  IN IF found = {} THEN Undefined ELSE CHOOSE d \in found : TRUE

\* The pipeline's model maintenance: a creation transaction in the model
\* space puts its document into the model store, under its reference.
ApplyTx(db, tx) ==
  IF tx._class = "TxCreateDoc" /\ tx.objectSpace = "Model"
  THEN {d \in db : d._id # tx.objectId} \cup {createDoc2Doc(tx)}
  ELSE db

\* The transaction a client submits through tx().
UserTx ==
  [_class |-> "TxUpdateDoc", objectClass |-> "A", objectSpace |-> "Space",
   objectId |-> <<"doc">>, modifiedBy |-> "User",
   attributes |-> [role |-> "USER", email |-> <<"doc">>]]

\* What the pipeline resolves its calls with.
PipelineResult(what) == [kind |-> "result", of |-> what]

\* ----------------------------------------------------- ClientSession state
\* Mutant: any admin flag that is present counts.
isAdmin_Truthy(s) == token[s].admin # "absent"

\* this.token.extra?.admin === 'true' (lines 99, 131)
isAdmin(s) == token[s].admin = "true"

\* includeSessionContext: new SessionDataImpl(...), installed on ctx.
SessionData(s, id) ==
  [kind |-> "SessionData", id |-> id, userEmail |-> token[s].email,
   sessionId |-> "", admin |-> isAdmin(s),
   broadcast |-> [txes |-> <<>>, targets |-> {}],
   workspace |-> "workspace", branding |-> "branding"]

\* Mutant: one context object is kept and installed again.
includeSessionContext_Pooled(c, s) ==
  /\ ctxData' = [ctxData EXCEPT ![c] = SessionData(s, 1)]
  /\ nextCtx' = nextCtx + 1

includeSessionContext(c, s) ==
  /\ ctxData' = [ctxData EXCEPT ![c] = SessionData(s, nextCtx)]
  /\ nextCtx' = nextCtx + 1

IncFind(stat) == [stat EXCEPT !.find = @ + 1]
IncTx(stat) == [stat EXCEPT !.tx = @ + 1]

NoBroadcast == [count |-> 0, session |-> "none", tx |-> <<>>, sends |-> <<>>]

\* The state right after the sessions are constructed.
InitSessions ==
  /\ requests = [s \in Sessions |-> {}]
  /\ lastRequest = [s \in Sessions |-> now]
  /\ total = [s \in Sessions |-> StatisticsElement]
  /\ current = [s \in Sessions |-> StatisticsElement]
  /\ mins5 = [s \in Sessions |-> StatisticsElement]
  /\ binaryMode = [s \in Sessions |-> FALSE]
  /\ useCompression = [s \in Sessions |-> TRUE]

InitCalls ==
  /\ pc = [c \in Calls |-> "idle"]
  /\ op = [c \in Calls |-> "none"]
  /\ sess = [c \in Calls |-> "none"]
  /\ ctxData = [c \in Calls |-> Undefined]
  /\ nextCtx = 1
  /\ submitted = [c \in Calls |-> <<>>]
  /\ txDone = [c \in Calls |-> 0]
  /\ piped = [c \in Calls |-> 0]
  /\ responses = [c \in Calls |-> <<>>]
  /\ delivered = [c \in Calls |-> 0]
  /\ flushed = [c \in Calls |-> 0]

\* The tokens the two sessions were opened with: s1 is an administrator with
\* email a; s2 has the same email with any admin flag, or is another
\* administrator.
Token(email, admin) == [email |-> email, admin |-> admin]
Tokens ==
  {[s \in Sessions |-> IF s = "s1" THEN Token(EmailA, "true") ELSE t] :
     t \in {Token(EmailA, a) : a \in AdminValues} \cup {Token(EmailB, "true")}}

\* The documents the model store may hold when the sessions open.
StoredDocs == {UserAccount(EmailA), createDoc2Doc(CreateAccountTx(EmailA))}

Init ==
  /\ now = 0
  /\ token \in Tokens
  /\ modelDb \in SUBSET StoredDocs
  /\ InitSessions
  /\ InitCalls
  /\ socket = NoBroadcast

\* ------------------------------------------------------------- the clock
Tick ==
  /\ now < MaxClock
  /\ now' = now + 1
  /\ UNCHANGED <<sessionVars, modelDb, callVars, socket>>

\* A request is dispatched to a session: the next unused call slot.
Fresh(c) == pc[c] = "idle" /\ \A d \in Calls : d < c => pc[d] # "idle"

\* ctx.sendResponse(value) is invoked by call c.
Respond(c, value) == responses' = [responses EXCEPT ![c] = Append(@, value)]

\* ------------------------------------------------------------------ ping
\* lines 85-89
Ping(c, s) ==
  /\ Fresh(c)
  /\ op' = [op EXCEPT ![c] = "ping"]
  /\ sess' = [sess EXCEPT ![c] = s]
  /\ lastRequest' = [lastRequest EXCEPT ![s] = now]
  /\ Respond(c, Pong)
  /\ pc' = [pc EXCEPT ![c] = "ping_send"]
  /\ UNCHANGED <<now, token, requests, total, current, mins5, binaryMode, useCompression,
                 modelDb, ctxData, nextCtx, submitted, txDone, piped,
                 delivered, flushed, socket>>

\* The awaited sendResponse of a call that ends with it resolves or rejects.
LastSend == {"ping_send", "lm_send", "ga_send", "fa_send", "sf_send"}

ResponseResolved(c) ==
  /\ pc[c] \in LastSend
  /\ delivered' = [delivered EXCEPT ![c] = @ + 1]
  /\ pc' = [pc EXCEPT ![c] = "done"]
  /\ UNCHANGED <<now, sessionVars, modelDb, op, sess, ctxData, nextCtx, submitted,
                 txDone, piped, responses, flushed, socket>>

ResponseRejected(c) ==
  /\ pc[c] \in LastSend
  /\ pc' = [pc EXCEPT ![c] = "failed"]
  /\ UNCHANGED <<now, sessionVars, modelDb, op, sess, ctxData, nextCtx, submitted,
                 txDone, piped, responses, delivered, flushed, socket>>

\* Mutant: loadModel writes the last-activity timestamp.
LoadModel_Touches(c, s) ==
  /\ Fresh(c)
  /\ op' = [op EXCEPT ![c] = "loadModel"]
  /\ sess' = [sess EXCEPT ![c] = s]
  /\ lastRequest' = [lastRequest EXCEPT ![s] = now]
  /\ ctxData' = [ctxData EXCEPT ![c] = SessionData(s, nextCtx)]
  /\ nextCtx' = nextCtx + 1
  /\ piped' = [piped EXCEPT ![c] = @ + 1]
  /\ pc' = [pc EXCEPT ![c] = "lm_pipe"]
  /\ UNCHANGED <<now, token, requests, total, current, mins5, binaryMode,
                 useCompression, modelDb, submitted, txDone, responses,
                 delivered, flushed, socket>>

\* ------------------------------------------------------------- loadModel
\* lines 91-95
LoadModel(c, s) ==
  /\ Fresh(c)
  /\ op' = [op EXCEPT ![c] = "loadModel"]
  /\ sess' = [sess EXCEPT ![c] = s]
  /\ includeSessionContext(c, s)
  /\ piped' = [piped EXCEPT ![c] = @ + 1]
  /\ pc' = [pc EXCEPT ![c] = "lm_pipe"]
  /\ UNCHANGED <<now, sessionVars, modelDb, submitted, txDone, responses,
                 delivered, flushed, socket>>

\* A read of the pipeline (loadModel, findAll, searchFulltext) resolves and
\* the call hands the result to sendResponse, or it rejects and the call ends.
ReadPipe == {"lm_pipe", "fa_pipe", "sf_pipe"}
SendAfter(p) ==
  CASE p = "lm_pipe" -> "lm_send"
    [] p = "fa_pipe" -> "fa_send"
    [] p = "sf_pipe" -> "sf_send"

\* Mutant: a read flushes broadcasts as tx does.
ReadResolved_Flushes(c) ==
  /\ pc[c] \in ReadPipe
  /\ Respond(c, PipelineResult(pc[c]))
  /\ flushed' = [flushed EXCEPT ![c] = @ + 1]
  /\ pc' = [pc EXCEPT ![c] = SendAfter(pc[c])]
  /\ UNCHANGED <<now, sessionVars, modelDb, op, sess, ctxData, nextCtx, submitted,
                 txDone, piped, delivered, socket>>

ReadResolved(c) ==
  /\ pc[c] \in ReadPipe
  /\ Respond(c, PipelineResult(pc[c]))
  /\ pc' = [pc EXCEPT ![c] = SendAfter(pc[c])]
  /\ UNCHANGED <<now, sessionVars, modelDb, op, sess, ctxData, nextCtx, submitted,
                 txDone, piped, delivered, flushed, socket>>

\* Mutant: the rejection is caught and answered with an error value.
ReadRejected_Caught(c) ==
  /\ pc[c] \in ReadPipe
  /\ Respond(c, [kind |-> "error", of |-> pc[c]])
  /\ pc' = [pc EXCEPT ![c] = SendAfter(pc[c])]
  /\ UNCHANGED <<now, sessionVars, modelDb, op, sess, ctxData, nextCtx, submitted,
                 txDone, piped, delivered, flushed, socket>>

ReadRejected(c) ==
  /\ pc[c] \in ReadPipe
  /\ pc' = [pc EXCEPT ![c] = "failed"]
  /\ UNCHANGED <<now, sessionVars, modelDb, op, sess, ctxData, nextCtx, submitted,
                 txDone, piped, responses, delivered, flushed, socket>>

\* ------------------------------------------------------------ getAccount
\* Mutant: the account found by email is not looked at.
NeedsSystemAccount_AnyAccount(s, account) == isAdmin(s)

\* line 99: account === undefined && this.token.extra?.admin === 'true'
NeedsSystemAccount(s, account) == account = Undefined /\ isAdmin(s)

\* lines 97-125, up to the first await
GetAccount(c, s) ==
  LET email == token[s].email
      account == getAccountByEmail(modelDb, email)
      systemAccount == findObject(modelDb, email)
  IN
  /\ Fresh(c)
  /\ op' = [op EXCEPT ![c] = "getAccount"]
  /\ sess' = [sess EXCEPT ![c] = s]
  /\ IF NeedsSystemAccount(s, account)
     THEN IF systemAccount = Undefined
          THEN \* Generate account for admin user
               /\ includeSessionContext(c, s)
               /\ submitted' = [submitted EXCEPT
                                  ![c] = Append(@, <<CreateAccountTx(email)>>)]
               /\ piped' = [piped EXCEPT ![c] = @ + 1]
               /\ pc' = [pc EXCEPT ![c] = "ga_tx"]
               /\ UNCHANGED responses
          ELSE /\ Respond(c, systemAccount)
               /\ pc' = [pc EXCEPT ![c] = "ga_send"]
               /\ UNCHANGED <<ctxData, nextCtx, submitted, piped>>
     ELSE /\ Respond(c, account)
          /\ pc' = [pc EXCEPT ![c] = "ga_send"]
          /\ UNCHANGED <<ctxData, nextCtx, submitted, piped>>
  /\ UNCHANGED <<now, sessionVars, modelDb, txDone, delivered, flushed, socket>>

\* lines 115-117: the creation resolved; the document goes to the caller.
GetAccountTxResolved(c) ==
  LET createTx == submitted[c][1][1]
  IN
  /\ pc[c] = "ga_tx"
  /\ modelDb' = ApplyTx(modelDb, createTx)
  /\ txDone' = [txDone EXCEPT ![c] = @ + 1]
  /\ Respond(c, createDoc2Doc(createTx))
  /\ pc' = [pc EXCEPT ![c] = "ga_send"]
  /\ UNCHANGED <<now, sessionVars, op, sess, ctxData, nextCtx, submitted, piped,
                 delivered, flushed, socket>>

GetAccountTxRejected(c) ==
  /\ pc[c] = "ga_tx"
  /\ pc' = [pc EXCEPT ![c] = "failed"]
  /\ UNCHANGED <<now, sessionVars, modelDb, op, sess, ctxData, nextCtx, submitted,
                 txDone, piped, responses, delivered, flushed, socket>>

\* ------------------------------------------------- findAll, searchFulltext
\* Mutant: the period counter is forgotten.
CountFind_TotalOnly(s) ==
  /\ total' = [total EXCEPT ![s] = IncFind(@)]
  /\ UNCHANGED current

\* lines 152-154 of findAllRaw
CountFind(s) ==
  /\ total' = [total EXCEPT ![s] = IncFind(@)]
  /\ current' = [current EXCEPT ![s] = IncFind(@)]

\* lines 146-166: findAll calls findAllRaw, which runs to the pipeline call.
FindAll(c, s) ==
  /\ Fresh(c)
  /\ op' = [op EXCEPT ![c] = "findAll"]
  /\ sess' = [sess EXCEPT ![c] = s]
  /\ lastRequest' = [lastRequest EXCEPT ![s] = now]
  /\ CountFind(s)
  /\ includeSessionContext(c, s)
  /\ piped' = [piped EXCEPT ![c] = @ + 1]
  /\ pc' = [pc EXCEPT ![c] = "fa_pipe"]
  /\ UNCHANGED <<now, token, requests, mins5, binaryMode, useCompression, modelDb,
                 submitted, txDone, responses, delivered, flushed, socket>>

\* Mutant: a search is counted as a find.
CountSearch_AsFind(s) == CountFind(s)

\* lines 168-172: searchFulltext touches no counter.
CountSearch(s) == UNCHANGED <<total, current>>

\* Mutant: the last-activity timestamp is not written.
SearchFulltext_NoTouch(c, s) ==
  /\ Fresh(c)
  /\ op' = [op EXCEPT ![c] = "searchFulltext"]
  /\ sess' = [sess EXCEPT ![c] = s]
  /\ CountSearch(s)
  /\ includeSessionContext(c, s)
  /\ piped' = [piped EXCEPT ![c] = @ + 1]
  /\ pc' = [pc EXCEPT ![c] = "sf_pipe"]
  /\ UNCHANGED <<now, token, requests, lastRequest, mins5, binaryMode, useCompression,
                 modelDb, submitted, txDone, responses, delivered, flushed,
                 socket>>

\* lines 168-172, up to the pipeline call
SearchFulltext(c, s) ==
  /\ Fresh(c)
  /\ op' = [op EXCEPT ![c] = "searchFulltext"]
  /\ sess' = [sess EXCEPT ![c] = s]
  /\ lastRequest' = [lastRequest EXCEPT ![s] = now]
  /\ CountSearch(s)
  /\ includeSessionContext(c, s)
  /\ piped' = [piped EXCEPT ![c] = @ + 1]
  /\ pc' = [pc EXCEPT ![c] = "sf_pipe"]
  /\ UNCHANGED <<now, token, requests, mins5, binaryMode, useCompression, modelDb,
                 submitted, txDone, responses, delivered, flushed, socket>>

\* -------------------------------------------------------------------- tx
\* Mutant: a transaction is counted as a find.
CountTx_AsFind(s) == CountFind(s)

\* Mutant: the period counter is forgotten.
CountTx_TotalOnly(s) ==
  /\ total' = [total EXCEPT ![s] = IncTx(@)]
  /\ UNCHANGED current

\* lines 176-177
CountTx(s) ==
  /\ total' = [total EXCEPT ![s] = IncTx(@)]
  /\ current' = [current EXCEPT ![s] = IncTx(@)]

\* lines 174-180
Tx(c, s) ==
  /\ Fresh(c)
  /\ op' = [op EXCEPT ![c] = "tx"]
  /\ sess' = [sess EXCEPT ![c] = s]
  /\ lastRequest' = [lastRequest EXCEPT ![s] = now]
  /\ CountTx(s)
  /\ includeSessionContext(c, s)
  /\ submitted' = [submitted EXCEPT ![c] = Append(@, <<UserTx>>)]
  /\ piped' = [piped EXCEPT ![c] = @ + 1]
  /\ pc' = [pc EXCEPT ![c] = "tx_pipe"]
  /\ UNCHANGED <<now, token, requests, mins5, binaryMode, useCompression, modelDb,
                 txDone, responses, delivered, flushed, socket>>

\* Mutant: sendResponse is not awaited, the flush starts with it.
TxResolved_NoAwait(c) ==
  /\ pc[c] = "tx_pipe"
  /\ modelDb' = ApplyTx(modelDb, submitted[c][1][1])
  /\ txDone' = [txDone EXCEPT ![c] = @ + 1]
  /\ Respond(c, PipelineResult("tx"))
  /\ flushed' = [flushed EXCEPT ![c] = @ + 1]
  /\ pc' = [pc EXCEPT ![c] = "tx_flush"]
  /\ UNCHANGED <<now, sessionVars, op, sess, ctxData, nextCtx, submitted, piped,
                 delivered, socket>>

\* lines 180-183: the submission resolved; send result immediately.
TxResolved(c) ==
  /\ pc[c] = "tx_pipe"
  /\ modelDb' = ApplyTx(modelDb, submitted[c][1][1])
  /\ txDone' = [txDone EXCEPT ![c] = @ + 1]
  /\ Respond(c, PipelineResult("tx"))
  /\ pc' = [pc EXCEPT ![c] = "tx_send"]
  /\ UNCHANGED <<now, sessionVars, op, sess, ctxData, nextCtx, submitted, piped,
                 delivered, flushed, socket>>

\* Mutant: one rejection fails every submission that is pending.
TxRejected_Shared(c) ==
  /\ pc[c] = "tx_pipe"
  /\ pc' = [d \in Calls |-> IF pc[d] = "tx_pipe" THEN "failed" ELSE pc[d]]
  /\ UNCHANGED <<now, sessionVars, modelDb, op, sess, ctxData, nextCtx, submitted,
                 txDone, piped, responses, delivered, flushed, socket>>

TxRejected(c) ==
  /\ pc[c] = "tx_pipe"
  /\ pc' = [pc EXCEPT ![c] = "failed"]
  /\ UNCHANGED <<now, sessionVars, modelDb, op, sess, ctxData, nextCtx, submitted,
                 txDone, piped, responses, delivered, flushed, socket>>

\* What tx does once its awaited sendResponse resolved (lines 183-186).
AfterReply(c) ==
  /\ flushed' = [flushed EXCEPT ![c] = @ + 1]
  /\ pc' = [pc EXCEPT ![c] = "tx_flush"]

\* lines 183-186: the reply is delivered; broadcast all collected transactions.
TxResponseResolved(c) ==
  /\ pc[c] = "tx_send"
  /\ delivered' = [delivered EXCEPT ![c] = @ + 1]
  /\ AfterReply(c)
  /\ UNCHANGED <<now, sessionVars, modelDb, op, sess, ctxData, nextCtx, submitted,
                 txDone, piped, responses, socket>>

\* line 183: the awaited sendResponse rejects and tx ends there.
TxResponseRejected(c) ==
  /\ pc[c] = "tx_send"
  /\ pc' = [pc EXCEPT ![c] = "failed"]
  /\ UNCHANGED <<now, sessionVars, modelDb, op, sess, ctxData, nextCtx, submitted,
                 txDone, piped, responses, delivered, flushed, socket>>

\* line 186: the awaited handleBroadcast resolves or rejects.
FlushResolved(c) ==
  /\ pc[c] = "tx_flush"
  /\ pc' = [pc EXCEPT ![c] = "done"]
  /\ UNCHANGED <<now, sessionVars, modelDb, op, sess, ctxData, nextCtx, submitted,
                 txDone, piped, responses, delivered, flushed, socket>>

FlushRejected(c) ==
  /\ pc[c] = "tx_flush"
  /\ pc' = [pc EXCEPT ![c] = "failed"]
  /\ UNCHANGED <<now, sessionVars, modelDb, op, sess, ctxData, nextCtx, submitted,
                 txDone, piped, responses, delivered, flushed, socket>>

\* --------------------------------------------------------- specification
Next ==
  \/ \E c \in Calls, s \in Sessions :
       \/ Ping(c, s)
       \/ LoadModel(c, s)
       \/ GetAccount(c, s)
       \/ FindAll(c, s)
       \/ SearchFulltext(c, s)
       \/ Tx(c, s)
  \/ \E c \in Calls :
       \/ ResponseResolved(c)
       \/ ResponseRejected(c)
       \/ ReadResolved(c)
       \/ ReadRejected(c)
       \/ GetAccountTxResolved(c)
       \/ GetAccountTxRejected(c)
       \/ TxResolved(c)
       \/ TxRejected(c)
       \/ TxResponseResolved(c)
       \/ TxResponseRejected(c)
       \/ FlushResolved(c)
       \/ FlushRejected(c)

Spec == Init /\ [][Next]_vars

\* The same requests under a running clock, for one pair of tokens: an
\* administrator and a plain user of the same email, on an empty store.
InitClock ==
  /\ Init
  /\ token = [s \in Sessions |->
               Token(EmailA, IF s = "s1" THEN "true" ELSE "false")]
  /\ modelDb = {}

NextClock == Next \/ Tick

SpecClock == InitClock /\ [][NextClock]_vars

\* ------------------------------------------------------------- broadcast
\* TxProcessor.isExtendsCUD: a create/update/delete-style transaction.
isExtendsCUD(_class) ==
  _class \in {"TxCreateDoc", "TxUpdateDoc", "TxRemoveDoc", "TxMixin",
              "TxCollectionCUD"}

\* TxProcessor.extractTx: the inner transaction of a wrapper, else itself.
extractTx(tx) == IF tx._class = "TxCollectionCUD" THEN tx.tx[1] ELSE tx

\* createBroadcastEvent: the compacted event carrying the classes.
createBroadcastEvent(classes) ==
  [_class |-> "TxWorkspaceEvent", event |-> "BulkUpdate",
   params |-> [_class |-> classes]]

PlainTx(_class, objectClass) ==
  [_class |-> _class, objectClass |-> objectClass, tx |-> <<>>]
WrapTx(objectClass, inner) ==
  [_class |-> "TxCollectionCUD", objectClass |-> objectClass, tx |-> <<inner>>]

CreateA == PlainTx("TxCreateDoc", "A")
UpdateB == PlainTx("TxUpdateDoc", "B")
CollectionAC == WrapTx("A", PlainTx("TxCreateDoc", "C"))
ApplyIf == PlainTx("TxApplyIf", "none")
BroadcastTxs == {CreateA, UpdateB, CollectionAC, ApplyIf}

\* The length the code compares, and the threshold it compares it with
\* (line 190): this.tx is the method tx(ctx, tx), and the length of a
\* function is the number of its declared parameters.
txLength == 2
BroadcastThreshold == 10000

\* lines 192-200: what one transaction adds to the set, in order.
ClassesOfTx(dtx) ==
  (IF isExtendsCUD(dtx._class) THEN <<dtx.objectClass>> ELSE <<>>)
  \o (LET etx == extractTx(dtx)
      IN IF isExtendsCUD(etx._class) THEN <<etx.objectClass>> ELSE <<>>)

\* lines 191-201: Array.from(classes), the distinct classes in the order of
\* their first insertion into the Set.
AffectedClasses(tx) ==
  LET Adds(i) == ClassesOfTx(tx[i])
      Has(i, k) == \E j \in 1..Len(Adds(i)) : Adds(i)[j] = k
      All == UNION {{Adds(i)[j] : j \in 1..Len(Adds(i))} : i \in 1..Len(tx)}
      FirstTx(k) == CHOOSE i \in 1..Len(tx) :
                      Has(i, k) /\ \A h \in 1..(i - 1) : ~Has(h, k)
      FirstAt(k) == CHOOSE j \in 1..Len(Adds(FirstTx(k))) :
                      /\ Adds(FirstTx(k))[j] = k
                      /\ \A h \in 1..(j - 1) : Adds(FirstTx(k))[h] # k
      Before(k1, k2) ==
        \/ FirstTx(k1) < FirstTx(k2)
        \/ FirstTx(k1) = FirstTx(k2) /\ FirstAt(k1) < FirstAt(k2)
  IN CHOOSE seq \in [1..Cardinality(All) -> All] :
       \A a, b \in 1..Cardinality(All) : a < b => Before(seq[a], seq[b])

\* Mutant: the batch is measured, and compacted from the threshold on.
Compacts_FromThreshold(tx) == Len(tx) >= BroadcastThreshold

\* line 190: the test that selects the compacted event.
Compacts(tx) == txLength > BroadcastThreshold

\* Mutant: the two flags are passed in the wrong order.
Send_FlagsSwapped(via, result, cap, s) ==
  [via |-> via, payload |-> [result |-> result], cap |-> cap,
   binary |-> useCompression[s], compression |-> binaryMode[s]]

\* One call of the transport: socket.send (lines 202-209) has no size cap,
\* handleSend (line 211) is given 1024 * 1024.
Send(via, result, cap, s) ==
  [via |-> via, payload |-> [result |-> result], cap |-> cap,
   binary |-> binaryMode[s], compression |-> useCompression[s]]

\* lines 189-213: what broadcast hands to the transport.
BroadcastSends(s, tx) ==
  IF Compacts(tx)
  THEN <<Send("socket.send", <<createBroadcastEvent(AffectedClasses(tx))>>, <<>>, s)>>
  ELSE <<Send("handleSend", tx, <<1024 * 1024>>, s)>>

Broadcast(s, tx) ==
  /\ socket.count < MaxBroadcasts
  /\ socket' = [count |-> socket.count + 1, session |-> s, tx |-> tx,
                sends |-> BroadcastSends(s, tx)]
  /\ UNCHANGED <<now, sessionVars, modelDb, callVars>>

\* The batches handed to broadcast: every short one, and long ones, of the
\* threshold's length and one more, that repeat a pattern.
SmallBatches == UNION {[1..n -> BroadcastTxs] : n \in 0..MaxLen}
Patterns == {<<CreateA>>, <<CollectionAC, UpdateB, ApplyIf>>}
Repeat(p, n) == [i \in 1..n |-> p[((i - 1) % Len(p)) + 1]]
LargeBatches ==
  {Repeat(p, n) : p \in Patterns, n \in {BroadcastThreshold, BroadcastThreshold + 1}}
Batches == SmallBatches \cup LargeBatches

\* The first session with the transport flags its connection negotiated,
\* the second with those of construction (lines 52-53); with or without a
\* live request.
InitBroadcast ==
  /\ now = 0
  /\ token = [s \in Sessions |-> Token(EmailA, "true")]
  /\ requests \in {[s \in Sessions |-> ids] : ids \in {{}, {"r1"}}}
  /\ modelDb = {}
  /\ lastRequest = [s \in Sessions |-> now]
  /\ total = [s \in Sessions |-> StatisticsElement]
  /\ current = [s \in Sessions |-> StatisticsElement]
  /\ mins5 = [s \in Sessions |-> StatisticsElement]
  /\ binaryMode \in {[s \in Sessions |-> s = "s1" /\ b] : b \in BOOLEAN}
  /\ useCompression \in {[s \in Sessions |-> s = "s1" => b] : b \in BOOLEAN}
  /\ InitCalls
  /\ socket = NoBroadcast

NextBroadcast == \E s \in Sessions, tx \in Batches : Broadcast(s, tx)

SpecBroadcast == InitBroadcast /\ [][NextBroadcast]_vars

\* Every operation of the session together: the requests, the clock, and
\* broadcasts of a short batch to the first session. The socket shows what
\* the last broadcast handed to it, so any number of them may be made.
BroadcastShort ==
  /\ socket' = [count |-> 1, session |-> "s1", tx |-> <<CreateA>>,
                sends |-> BroadcastSends("s1", <<CreateA>>)]
  /\ UNCHANGED <<now, sessionVars, modelDb, callVars>>

NextSession == Next \/ Tick \/ BroadcastShort

SpecSession == InitClock /\ [][NextSession]_vars

\* ================================================================ claims
\* The last broadcast, when there was one.
Broadcasted == socket.count > 0
IsCompactedEvent(m) == m._class = "TxWorkspaceEvent"
SentEvents ==
  {i \in 1..Len(socket.sends) :
     \E j \in 1..Len(socket.sends[i].payload.result) :
       IsCompactedEvent(socket.sends[i].payload.result[j])}

\* The distinct union, over the transactions of a batch, of the outer class
\* and the unwrapped inner class of those that are create/update/delete-style.
ClassUnion(tx) ==
  UNION {(IF isExtendsCUD(tx[i]._class) THEN {tx[i].objectClass} ELSE {})
         \cup (IF isExtendsCUD(extractTx(tx[i])._class)
               THEN {extractTx(tx[i]).objectClass} ELSE {}) : i \in 1..Len(tx)}

\* C1: a broadcast of a batch longer than the threshold hands the socket
\* exactly one message, carrying exactly one compacted event whose classes
\* are the distinct union of the outer and unwrapped inner classes of the
\* batch, and the batch itself is not sent.
C1_LargeBatchCompacted ==
  (Broadcasted /\ Len(socket.tx) > BroadcastThreshold) =>
    /\ Len(socket.sends) = 1
    /\ socket.sends[1].payload.result # socket.tx
    /\ Len(socket.sends[1].payload.result) = 1
    /\ IsCompactedEvent(socket.sends[1].payload.result[1])
    /\ LET classes == socket.sends[1].payload.result[1].params._class
       IN {classes[i] : i \in 1..Len(classes)} = ClassUnion(socket.tx)

\* C2: a broadcast of a batch of at most the threshold's length, the empty
\* batch and a batch of exactly that length included, hands the transport
\* the batch itself, same transactions in the same order, and no compacted
\* event.
C2_SmallBatchVerbatim ==
  (Broadcasted /\ Len(socket.tx) <= BroadcastThreshold) =>
    /\ Len(socket.sends) = 1
    /\ socket.sends[1].payload.result = socket.tx
    /\ SentEvents = {}

C2_Witness == Broadcasted /\ Len(socket.tx) = BroadcastThreshold

\* ---------------------------------------------------------------- calls
InFlight(c) == pc[c] \notin {"idle", "done", "failed"}
Starts(c, method) == pc[c] = "idle" /\ op'[c] = method
Steps(c) == pc'[c] # pc[c]
Installed == {ctxData[c].id : c \in {d \in Calls : ctxData[d] # Undefined}}

\* C3: in every tx call, under any interleaving with other calls, the
\* submission of [t] has resolved before sendResponse(result) is invoked,
\* and handleBroadcast is invoked only after that sendResponse resolved.
C3_ReplyBeforeFlush ==
  \A c \in Calls : op[c] = "tx" =>
    /\ submitted[c] = <<(<<UserTx>>)>>
    /\ responses[c] # <<>> => txDone[c] = 1
    /\ flushed[c] > 0 =>
         /\ responses[c] = <<PipelineResult("tx")>>
         /\ delivered[c] = 1

C3_Witness ==
  \E c, d \in Calls :
    /\ c # d /\ op[c] = "tx" /\ flushed[c] = 1
    /\ op[d] = "tx" /\ InFlight(d) /\ delivered[d] = 0

\* The getAccount calls that submitted a creation of the account keyed by
\* email e, those whose submission the pipeline rejected set aside.
Creations(e) ==
  {c \in Calls : /\ op[c] = "getAccount"
                 /\ submitted[c] # <<>>
                 /\ submitted[c][1][1].objectId = e
                 /\ ~(pc[c] = "failed" /\ txDone[c] = 0)}

\* C4: for any number of getAccount calls of admin callers with the same
\* email, under every interleaving, at most one creation transaction for the
\* account keyed by that email is ever submitted.
C4_CreatedOnce == \A e \in Emails : Cardinality(Creations(e)) <= 1

\* The start of call d, when call c created the account and is done.
C5_Step(c, d) ==
  LET email == token[sess[c]].email
  IN
  (/\ op[c] = "getAccount" /\ pc[c] = "done" /\ txDone[c] = 1
   /\ Starts(d, "getAccount")
   /\ token[sess'[d]] = token[sess[c]])
  => /\ Len(submitted[c]) + Len(submitted'[d]) = 1
     /\ responses'[d] = responses[c]
     /\ Len(responses'[d]) = 1
     /\ responses'[d][1]._id = email
     /\ responses'[d][1].email = <<"system:">> \o email
     /\ responses'[d][1].role = "OWNER"

\* C5: once a getAccount of an admin caller has created the account and
\* completed, a second getAccount of the same caller submits no creation
\* (one in total) and responds with the same document: reference the email,
\* email system:<email>, role Owner.
C5_SecondCallSameDocument == [][\A c, d \in Calls : C5_Step(c, d)]_vars

C5_Witness ==
  \E c, d \in Calls :
    /\ c < d /\ sess[c] = sess[d]
    /\ op[c] = "getAccount" /\ pc[c] = "done" /\ txDone[c] = 1
    /\ op[d] = "getAccount" /\ pc[d] = "done" /\ submitted[d] = <<>>
    /\ responses[d] = responses[c]

\* The start, and every later state, of a getAccount that synthesises.
C6_Start(c) ==
  LET s == sess'[c]
      email == token[s].email
  IN
  (/\ Starts(c, "getAccount")
   /\ token[s].admin = "true"
   /\ getAccountByEmail(modelDb, email) = Undefined
   /\ findObject(modelDb, email) = Undefined)
  => /\ Len(submitted'[c]) = 1
     /\ Len(submitted'[c][1]) = 1
     /\ submitted'[c][1][1]._class = "TxCreateDoc"
     /\ submitted'[c][1][1].objectClass = "Account"
     /\ submitted'[c][1][1].objectId = email
     /\ ctxData'[c] # Undefined
     /\ ctxData'[c].id \notin Installed
     /\ ctxData'[c].broadcast = [txes |-> <<>>, targets |-> {}]
     /\ responses'[c] = <<>>

C6_Call(c) ==
  LET email == token[sess[c]].email
  IN
  (op[c] = "getAccount" /\ submitted[c] # <<>>)
  => /\ Len(submitted[c]) = 1
     /\ Len(responses[c]) <= 1
     /\ responses[c] # <<>> =>
          /\ txDone[c] = 1
          /\ responses[c][1]._id = email
          /\ responses[c][1].email = <<"system:">> \o email
          /\ responses[c][1].role = "OWNER"
     /\ pc[c] = "done" => Len(responses[c]) = 1 /\ delivered[c] = 1

\* C6: a getAccount of a caller whose admin flag is 'true', when the store
\* has no account of the email and no object keyed by the raw email,
\* installs a fresh context and submits one batch of one creation
\* transaction; it responds at most once, after the submission resolved, with
\* the document keyed by the email, with email system:<email> and role
\* Owner, and exactly once when it completes.
C6_AdminSynthesis ==
  /\ [](\A c \in Calls : C6_Call(c))
  /\ [][\A c \in Calls : C6_Start(c)]_vars

C6_Witness ==
  \E c \in Calls :
    /\ op[c] = "getAccount" /\ pc[c] = "done" /\ submitted[c] # <<>>
    /\ token[sess[c]].email = EmailB

\* The start, and every step, of a getAccount of a caller without privilege.
C7_Start(c) ==
  LET s == sess'[c]
  IN
  (/\ Starts(c, "getAccount")
   /\ token[s].admin # "true"
   /\ getAccountByEmail(modelDb, token[s].email) = Undefined)
  => responses'[c] = <<Undefined>>

C7_Step(c) ==
  (op'[c] = "getAccount" /\ token[sess'[c]].admin # "true" /\ Steps(c))
  => /\ modelDb' = modelDb
     /\ Len(responses'[c]) = 1
     /\ submitted'[c] = <<>>
     /\ piped'[c] = 0
     /\ flushed'[c] = 0

\* C7: a getAccount of a caller whose admin flag is absent or is not 'true',
\* with no account of the caller's email, responds once, with undefined,
\* submits nothing to the pipeline, never invokes handleBroadcast and leaves
\* the model store as it is.
C7_NonAdminAbsent == [][\A c \in Calls : C7_Start(c) /\ C7_Step(c)]_vars

C7_Witness ==
  \E c \in Calls :
    /\ op[c] = "getAccount" /\ pc[c] = "done"
    /\ token[sess[c]].admin = "false"
    /\ responses[c] = <<Undefined>>

\* ------------------------------------------------------------ statistics
CallsOf(s, methods) == {c \in Calls : sess[c] = s /\ op[c] \in methods}
Bumped(stat, n) == [find |-> stat.find + n, tx |-> stat.tx]

\* The start, and the later steps, of a findAll call.
C8_Start(c) ==
  LET s == sess'[c]
  IN Starts(c, "findAll") =>
       /\ total'[s] = Bumped(total[s], 1)
       /\ current'[s] = Bumped(current[s], 1)
       /\ lastRequest'[s] = now
       /\ lastRequest'[s] >= lastRequest[s]

C8_Later(c) ==
  (op[c] = "findAll" /\ Steps(c)) => total' = total /\ current' = current

C8_OncePerCall ==
  \A s \in Sessions :
    /\ total[s].find = Cardinality(CallsOf(s, {"findAll"}))
    /\ current[s].find = Cardinality(CallsOf(s, {"findAll"}))

\* C8: every findAll call adds exactly 1 to total.find and to current.find
\* of its session, leaves total.tx and current.tx as they are, and sets the
\* last-activity timestamp to a value not below the one before; this
\* happens once per call, however many requests are in flight.
C8_FindAllCounts ==
  /\ []C8_OncePerCall
  /\ [][\A c \in Calls : C8_Start(c) /\ C8_Later(c)]_vars

C8_Witness ==
  \E c, d \in Calls :
    /\ c # d /\ sess[c] = sess[d]
    /\ pc[c] = "fa_pipe" /\ pc[d] = "fa_pipe"
    /\ total[sess[c]] = [find |-> 2, tx |-> 0]
    /\ lastRequest[sess[c]] > 0

\* C9 as stated: every search call, as every find call, counts as a find in
\* the total and the current counters.
C9_SearchCounted ==
  \A s \in Sessions :
    /\ total[s].find = Cardinality(CallsOf(s, {"findAll", "searchFulltext"}))
    /\ current[s].find = Cardinality(CallsOf(s, {"findAll", "searchFulltext"}))

\* The start of a findAll or of a searchFulltext call.
C9_Start(c) ==
  LET s == sess'[c]
      n == IF op'[c] = "findAll" THEN 1 ELSE 0
  IN (Starts(c, "findAll") \/ Starts(c, "searchFulltext")) =>
       /\ lastRequest'[s] = now
       /\ total'[s] = Bumped(total[s], n)
       /\ current'[s] = Bumped(current[s], n)

\* C9, amended: every find call and every search call writes the
\* last-activity timestamp; a find call adds exactly 1 to the total and the
\* current find counters, a search call leaves both as they are.
C9_SearchTouchesOnly == [][\A c \in Calls : C9_Start(c)]_vars

C9_Witness ==
  \E c \in Calls :
    /\ op[c] = "searchFulltext"
    /\ lastRequest[sess[c]] > 0
    /\ total[sess[c]].find = 0 /\ current[sess[c]].find = 0

\* A step of a searchFulltext call.
C10_Step(c) ==
  (op'[c] = "searchFulltext" /\ Steps(c)) =>
    /\ total' = total /\ current' = current /\ mins5' = mins5
    /\ pc[c] = "idle" =>
         /\ ctxData'[c] # Undefined
         /\ ctxData'[c].userEmail = token[sess'[c]].email
         /\ piped'[c] = 1
         /\ pc'[c] = "sf_pipe"

\* C10: no step of a searchFulltext call changes total, current or mins5,
\* of any field; the call installs a context and forwards to the
\* pipeline's search operation.
C10_SearchNotCounted == [][\A c \in Calls : C10_Step(c)]_vars

C10_Witness ==
  \E c \in Calls :
    /\ op[c] = "searchFulltext" /\ pc[c] = "done"
    /\ Len(responses[c]) = 1 /\ delivered[c] = 1

\* The start of a tx call: the synchronous part of lines 175-180.
C11_Start(c) ==
  LET s == sess'[c]
  IN Starts(c, "tx") =>
       /\ lastRequest'[s] = now
       /\ total'[s] = [find |-> total[s].find, tx |-> total[s].tx + 1]
       /\ current'[s] = [find |-> current[s].find, tx |-> current[s].tx + 1]
       /\ submitted[c] = <<>>
       /\ submitted'[c] = << <<UserTx>> >>
       /\ \A r \in Sessions \ {s} : total'[r] = total[r] /\ current'[r] = current[r]

\* The later steps of a tx call, the rejection of its submission among them.
C11_Later(c) ==
  (op[c] = "tx" /\ Steps(c)) =>
    /\ total' = total /\ current' = current /\ lastRequest' = lastRequest
    /\ submitted'[c] = submitted[c]

C11_Counted ==
  \A s \in Sessions :
    /\ total[s].tx = Cardinality(CallsOf(s, {"tx"}))
    /\ current[s].tx = Cardinality(CallsOf(s, {"tx"}))

\* C11: every tx call writes the last-activity timestamp and adds exactly 1
\* to total.tx and to current.tx of its session, leaving total.find and
\* current.find as they are; the pipeline is handed a batch of exactly the
\* one submitted transaction; the increments are made in the step that
\* submits, and stay whether the submission later resolves or rejects.
C11_TxCounts ==
  /\ []C11_Counted
  /\ [][\A c \in Calls : C11_Start(c) /\ C11_Later(c)]_vars

C11_Witness ==
  \E c \in Calls :
    /\ op[c] = "tx" /\ pc[c] = "failed" /\ txDone[c] = 0
    /\ submitted[c] = << <<UserTx>> >>
    /\ total[sess[c]] = [find |-> 0, tx |-> 1]
    /\ current[sess[c]] = [find |-> 0, tx |-> 1]
    /\ lastRequest[sess[c]] > 0

\* A tx call whose submission the pipeline rejected.
FailedSubmission(c) == op[c] = "tx" /\ pc[c] = "failed" /\ txDone[c] = 0

\* The step in which the submission of call c rejects: nothing but the
\* outcome of c changes.
C12_Failure(c) ==
  (pc[c] = "tx_pipe" /\ pc'[c] = "failed") =>
    /\ \A d \in Calls \ {c} :
         /\ pc'[d] = pc[d]
         /\ responses'[d] = responses[d]
         /\ delivered'[d] = delivered[d]
         /\ flushed'[d] = flushed[d]
         /\ txDone'[d] = txDone[d]
         /\ ctxData'[d] = ctxData[d]
    /\ responses'[c] = responses[c] /\ flushed'[c] = flushed[c]
    /\ modelDb' = modelDb
    /\ socket' = socket
    /\ sessionVars' = sessionVars

\* Beside a failed submission, the reply and the flush of every other tx
\* call whose submission resolved can still be made.
C12_OthersProceed ==
  \A c, d \in Calls :
    (c # d /\ FailedSubmission(c) /\ op[d] = "tx") =>
      /\ pc[d] = "tx_pipe" =>
           ENABLED (Next /\ pc'[d] = "tx_send" /\ Len(responses'[d]) = 1)
      /\ pc[d] = "tx_send" =>
           ENABLED (Next /\ pc'[d] = "tx_flush" /\ delivered'[d] = 1
                         /\ flushed'[d] = 1)
      /\ pc[d] = "tx_flush" => ENABLED (Next /\ pc'[d] = "done")

\* C12: a tx call whose submission the pipeline rejects fails that request
\* alone: the rejection changes the outcome of no other request of any
\* session, and the reply and the flush of every other tx call whose
\* submission resolved stay possible and untouched, in every interleaving.
C12_FailureIsLocal ==
  /\ []C12_OthersProceed
  /\ [][\A c \in Calls : C12_Failure(c)]_vars

C12_Witness ==
  \E c, d \in Calls :
    /\ FailedSubmission(c)
    /\ op[d] = "tx" /\ sess[d] # sess[c]
    /\ pc[d] = "done" /\ delivered[d] = 1 /\ flushed[d] = 1

\* The positions in which a call awaits the pipeline.
PipeWait == {"lm_pipe", "fa_pipe", "sf_pipe", "tx_pipe", "ga_tx"}

\* A call whose pipeline operation rejected.
PipelineFailed(c) ==
  /\ pc[c] = "failed" /\ piped[c] = 1 /\ txDone[c] = 0
  /\ responses[c] = <<>>

\* The step in which the awaited pipeline operation of call c rejects, and
\* whatever the model does with c afterwards.
C13_Failure(c) ==
  /\ (pc[c] \in PipeWait /\ pc'[c] = "failed") =>
       /\ responses'[c] = <<>>
       /\ delivered'[c] = 0 /\ flushed'[c] = 0
       /\ piped'[c] = 1 /\ Len(submitted'[c]) = Len(submitted[c])
       /\ modelDb' = modelDb
  /\ pc[c] = "failed" =>
       /\ pc'[c] = "failed"
       /\ piped'[c] = piped[c] /\ submitted'[c] = submitted[c]
       /\ responses'[c] = responses[c]
       /\ delivered'[c] = delivered[c] /\ flushed'[c] = flushed[c]

\* A call waiting for the pipeline has sent nothing yet; however a call
\* ends, the pipeline was invoked for it at most once; what a call of the
\* four forwarding methods sent is the one result the pipeline resolved to.
C13_AtMostOnce ==
  \A c \in Calls :
    /\ piped[c] <= 1 /\ Len(submitted[c]) <= 1
    /\ pc[c] \in PipeWait => responses[c] = <<>> /\ piped[c] = 1
    /\ (op[c] \in {"loadModel", "findAll", "searchFulltext", "tx"}
         /\ responses[c] # <<>>) =>
         /\ Len(responses[c]) = 1 /\ responses[c][1].kind = "result"
         /\ op[c] = "tx" => txDone[c] = 1
    /\ (op[c] = "tx" /\ txDone[c] = 0) => delivered[c] = 0 /\ flushed[c] = 0

\* C13: a rejection of the pipeline during findAll, searchFulltext, tx,
\* loadModel or the creation write of getAccount ends the request as
\* failed: the pipeline is invoked at most once per request and never again
\* after the rejection, nothing is sent through sendResponse for the failed
\* request, and tx makes neither the reply nor the flush after it.
C13_NoRecoveryNoRetry ==
  /\ []C13_AtMostOnce
  /\ [][\A c \in Calls : C13_Failure(c)]_vars

C13_Witness ==
  \E c, d \in Calls :
    /\ op[c] = "tx" /\ PipelineFailed(c) /\ flushed[c] = 0
    /\ op[d] = "getAccount" /\ PipelineFailed(d) /\ Len(submitted[d]) = 1

\* The step in which call c invokes one of the five pipeline operations.
C14_Call(c) ==
  LET s == sess'[c]
      data == ctxData'[c]
  IN piped'[c] = piped[c] + 1 =>
       /\ op'[c] \in {"loadModel", "findAll", "searchFulltext", "tx", "getAccount"}
       /\ ctxData[c] = Undefined /\ data # Undefined
       /\ data.id \notin Installed
       /\ data.broadcast = [txes |-> <<>>, targets |-> {}]
       /\ data.userEmail = token[s].email
       /\ data.sessionId = ""
       /\ data.admin = (token[s].admin = "true")
       /\ data.workspace = "workspace"
       /\ data.branding = "branding"

\* A context is installed only in the step that makes the pipeline call.
C14_OnlyThen(c) == ctxData'[c] # ctxData[c] => piped'[c] = piped[c] + 1

C14_NotShared ==
  \A c, d \in Calls :
    (c # d /\ ctxData[c] # Undefined /\ ctxData[d] # Undefined) =>
      ctxData[c].id # ctxData[d].id

\* C14: every call of pipeline.loadModel, findAll, searchFulltext, tx and
\* the creation write of getAccount is made in the same step, with no
\* suspension in between, as includeSessionContext on the call's context;
\* the installed context is a new object with an empty transaction buffer
\* and an empty target map, whose email, session id, admin flag, workspace
\* and branding are the session's; no context object serves two calls.
C14_FreshContext ==
  /\ []C14_NotShared
  /\ [][\A c \in Calls : C14_Call(c) /\ C14_OnlyThen(c)]_vars

C14_Witness ==
  \E c, d \in Calls :
    /\ c # d /\ sess[c] = sess[d]
    /\ op[c] = "getAccount" /\ pc[c] = "ga_tx"
    /\ op[d] = "tx" /\ pc[d] = "tx_pipe"
    /\ ctxData[c].admin /\ ctxData[c].id # ctxData[d].id

Reads == {"findAll", "searchFulltext"}

\* A step of a findAll or of a searchFulltext call.
C15_Step(c) ==
  (op'[c] \in Reads /\ Steps(c)) =>
    /\ submitted' = submitted /\ txDone' = txDone
    /\ flushed' = flushed
    /\ socket' = socket
    /\ modelDb' = modelDb
    /\ pc[c] = "idle" => responses'[c] = <<>> /\ piped'[c] = 1
    /\ pc'[c] \in {"fa_send", "sf_send"} =>
         /\ pc[c] = (IF op[c] = "findAll" THEN "fa_pipe" ELSE "sf_pipe")
         /\ responses'[c] = <<[kind |-> "result", of |-> pc[c]]>>
    /\ pc[c] \in {"fa_send", "sf_send"} => responses'[c] = responses[c]

C15_OneResponse ==
  \A c \in Calls :
    op[c] \in Reads =>
      /\ submitted[c] = <<>> /\ flushed[c] = 0 /\ txDone[c] = 0
      /\ Len(responses[c]) <= 1
      /\ pc[c] \in {"fa_send", "sf_send", "done"} => Len(responses[c]) = 1
      /\ pc[c] \in {"fa_pipe", "sf_pipe"} => responses[c] = <<>>
      /\ pc[c] = "done" => delivered[c] = 1

\* C15: no step of a findAll or of a searchFulltext call submits a
\* transaction, invokes handleBroadcast, sends to a socket or changes the
\* model store; when the pipeline call resolves, the call sends exactly one
\* response, which carries the pipeline's result.
C15_ReadOnly ==
  /\ []C15_OneResponse
  /\ [][\A c \in Calls : C15_Step(c)]_vars

C15_Witness ==
  \E c, d \in Calls :
    /\ op[c] = "findAll" /\ pc[c] = "done" /\ Len(responses[c]) = 1
    /\ op[d] = "searchFulltext" /\ pc[d] = "done" /\ Len(responses[d]) = 1

\* A tx call that has come to its end, either way.
Ended(c) == pc[c] \in {"done", "failed"}

\* C16 as stated: for every tx call whose submission the pipeline resolved,
\* handleBroadcast is invoked exactly once with the call's context, whatever
\* becomes of the reply; so no such call has ended without that one flush.
C16_SubmittedIsFlushed ==
  \A c \in Calls :
    (op[c] = "tx" /\ txDone[c] = 1 /\ Ended(c)) => flushed[c] = 1

\* The start of a getAccount call: the lookups of lines 98 and 100 and what
\* the call does with what they return.
C17_Start(c) ==
  LET s == sess'[c]
      email == token[s].email
      account == getAccountByEmail(modelDb, email)
      object == findObject(modelDb, email)
      creates == /\ token[s].admin = "true"
                 /\ account = Undefined
                 /\ object = Undefined
  IN Starts(c, "getAccount") =>
       /\ submitted'[c] # <<>> <=> creates
       /\ piped'[c] = 1 <=> creates
       /\ creates =>
            /\ Len(submitted'[c]) = 1 /\ Len(submitted'[c][1]) = 1
            /\ submitted'[c][1][1]._class = "TxCreateDoc"
            /\ responses'[c] = <<>>
       /\ account # Undefined => responses'[c] = <<account>>
       /\ (token[s].admin = "true" /\ account = Undefined /\ object # Undefined) =>
            responses'[c] = <<object>>
       /\ ~creates => Len(responses'[c]) = 1

\* The later steps of a getAccount call submit nothing, and a call that
\* submitted nothing writes nothing.
C17_Later(c) ==
  (op[c] = "getAccount" /\ Steps(c)) =>
    /\ submitted'[c] = submitted[c] /\ piped'[c] = piped[c]
    /\ submitted[c] = <<>> =>
         /\ modelDb' = modelDb /\ txDone'[c] = 0
         /\ responses'[c] = responses[c]

C17_OneResponse ==
  \A c \in Calls :
    op[c] = "getAccount" =>
      /\ Len(responses[c]) <= 1
      /\ pc[c] = "done" => Len(responses[c]) = 1 /\ delivered[c] = 1
      /\ submitted[c] = <<>> => txDone[c] = 0 /\ piped[c] = 0

\* C17: getAccount submits a creation transaction exactly when, at its
\* lookups, the admin flag of the token is 'true', no account has the
\* caller's email and no object is keyed by the raw email; an account of
\* the email is returned whoever asks, and for an admin without one an
\* object keyed by the raw email is returned, both without a pipeline
\* write; a getAccount that does not fail sends exactly one response.
C17_CreatesIffNeeded ==
  /\ []C17_OneResponse
  /\ [][\A c \in Calls : C17_Start(c) /\ C17_Later(c)]_vars

C17_Witness ==
  \E c, d \in Calls :
    /\ op[c] = "getAccount" /\ pc[c] = "done" /\ submitted[c] = <<>>
    /\ token[sess[c]].admin = "true"
    /\ getAccountByEmail(modelDb, token[sess[c]].email) = Undefined
    /\ responses[c] = <<findObject(modelDb, token[sess[c]].email)>>
    /\ responses[c] # <<Undefined>>
    /\ op[d] = "getAccount" /\ pc[d] = "done"
    /\ token[sess[d]].admin # "true" /\ Len(responses[d]) = 1

\* The counters of a session, as the number of calls started on it.
C18_Counted ==
  \A s \in Sessions :
    /\ total[s].find = Cardinality(CallsOf(s, {"findAll"}))
    /\ current[s].find = total[s].find
    /\ total[s].tx = Cardinality(CallsOf(s, {"tx"}))
    /\ current[s].tx = total[s].tx
    /\ mins5[s] = [find |-> 0, tx |-> 0]

C18_NoDecrease ==
  \A s \in Sessions :
    /\ total'[s].find >= total[s].find /\ total'[s].tx >= total[s].tx
    /\ current'[s].find >= current[s].find /\ current'[s].tx >= current[s].tx
    /\ mins5'[s].find >= mins5[s].find /\ mins5'[s].tx >= mins5[s].tx

\* C18: whatever the session's operations do and however they interleave,
\* no counter decreases; total.find and current.find are equal, and are the
\* number of findAll calls started; total.tx and current.tx are equal, and
\* are the number of tx calls started, the creation write of getAccount not
\* among them; mins5 stays {find: 0, tx: 0}.
C18_CountersTrackCalls ==
  /\ []C18_Counted
  /\ [][C18_NoDecrease]_vars

C18_Witness ==
  \E c, d \in Calls :
    /\ sess[c] = sess[d]
    /\ op[c] = "getAccount" /\ Len(submitted[c]) = 1 /\ txDone[c] = 1
    /\ op[d] = "tx" /\ txDone[d] = 1
    /\ total[sess[c]] = [find |-> 0, tx |-> 1]
    /\ socket.count > 0 /\ socket.session = sess[c]

\* One invocation of broadcast.
C19_Call ==
  socket'.count = socket.count + 1 =>
    LET s == socket'.session
        sends == socket'.sends
    IN /\ Len(sends) = 1
       /\ \/ /\ sends[1].via = "socket.send"
             /\ Len(sends[1].payload.result) = 1
             /\ IsCompactedEvent(sends[1].payload.result[1])
          \/ /\ sends[1].via = "handleSend"
             /\ sends[1].payload.result = socket'.tx
             /\ sends[1].cap = <<1024 * 1024>>
       /\ sends[1].binary = binaryMode[s]
       /\ sends[1].compression = useCompression[s]
       /\ total' = total /\ current' = current /\ mins5' = mins5
       /\ lastRequest' = lastRequest
       /\ requests' = requests
       /\ binaryMode' = binaryMode /\ useCompression' = useCompression
       /\ piped' = piped /\ submitted' = submitted
       /\ txDone' = txDone /\ flushed' = flushed
       /\ modelDb' = modelDb

\* C19: every broadcast hands the transport exactly one payload, either
\* one compacted event through socket.send or the whole batch through the
\* size-bounded send helper, with the session's binaryMode and
\* useCompression flags; it leaves the statistics, the last-activity
\* timestamp, the live request map and the batch as they were, and calls
\* no operation of the pipeline.
C19_OnePayload == [][C19_Call]_vars

C19_Witness ==
  /\ Broadcasted
  /\ Len(socket.tx) > BroadcastThreshold
  /\ Len(socket.sends) = 1
  /\ binaryMode[socket.session] /\ ~useCompression[socket.session]
  /\ socket.sends[1].binary /\ ~socket.sends[1].compression
  /\ requests[socket.session] # {}

Touching == {"ping", "findAll", "searchFulltext", "tx"}

\* The start of a call, by its method.
C20_Start(c) ==
  /\ (\E m \in Touching : Starts(c, m)) =>
       /\ lastRequest'[sess'[c]] = now
       /\ \A r \in Sessions \ {sess'[c]} : lastRequest'[r] = lastRequest[r]
  /\ (Starts(c, "getAccount") \/ Starts(c, "loadModel")) =>
       lastRequest' = lastRequest

\* What follows a suspension of a call, and a broadcast.
C20_Later(c) == (pc[c] # "idle" /\ Steps(c)) => lastRequest' = lastRequest

C20_Broadcast == socket' # socket => lastRequest' = lastRequest

\* A change of the timestamp of session s is the start of one of the four.
C20_Writers(s) ==
  lastRequest'[s] # lastRequest[s] =>
    \E c \in Calls :
      /\ pc[c] = "idle" /\ pc'[c] # "idle"
      /\ op'[c] \in Touching /\ sess'[c] = s

\* C20: with a clock that never runs backwards lastRequest never decreases;
\* it is written by ping, findAll, searchFulltext and tx and by nothing
\* else, each setting it to the clock's value in the step that starts the
\* call, before any suspension; getAccount, loadModel and broadcast leave it
\* as it was.
C20_LastRequest ==
  [][/\ \A s \in Sessions : lastRequest'[s] >= lastRequest[s] /\ C20_Writers(s)
     /\ \A c \in Calls : C20_Start(c) /\ C20_Later(c)
     /\ C20_Broadcast]_vars

C20_Witness ==
  \E c, d \in Calls :
    /\ sess[c] = sess[d] /\ socket.session = sess[c] /\ socket.count > 0
    /\ op[c] = "loadModel" /\ pc[c] = "done"
    /\ op[d] = "getAccount" /\ pc[d] = "done"
    /\ now > 0 /\ lastRequest[sess[c]] = 0

====
